---- MODULE Spec2Model ----
(***************************************************************************)
(* Student Database Management System (src/sdms.py).                       *)
(*                                                                         *)
(* A DatabaseManager owns one SQLite connection over the table `students`  *)
(* (id INTEGER PRIMARY KEY, name, age, grade_enc BLOB NOT NULL) and a      *)
(* field codec: Fernet when the cryptography package imports, base64       *)
(* otherwise.  main() is the console shell; concurrent_read_demo() runs    *)
(* two threads that list and print under PRINT_LOCK.                       *)
(*                                                                         *)
(* Text is a sequence of code points, a BLOB a sequence of byte values.    *)
(***************************************************************************)
EXTENDS Integers, Sequences, FiniteSets, TLC

(***************************************************************************)
(* Bounds and input sets                                                   *)
(***************************************************************************)
\* ids a caller may type are 1..MaxId
MaxId == 2

Ids == 1..MaxId

\* the (name, age) pairs the shell user types
People == {[name |-> "Alice", age |-> 20], [name |-> "Bob", age |-> 21]}

\* grades the shell user types: "", "A", "A+", "Aé"
\* (0, 1, 2 and 3 bytes of UTF-8: every base64 padding case, one non-ASCII)
Grades == {<< >>, <<65>>, <<65, 43>>, <<65, 233>>}

\* keys Fernet.generate_key() may return
Keys == {3, 5}

\* initialisation vectors Fernet.encrypt may draw; no decision of the store
\* reads the IV, so one value stands for all
IVs == {1}

\* self.fernet = None, and the absence of the key file
NoKey == 0

\* the result of a decode that raised
DecodeError == <<-1>>

(***************************************************************************)
(* str.encode() / bytes.decode(): UTF-8                                    *)
(***************************************************************************)
\* one code point to its UTF-8 bytes (surrogates are outside the input set)
Utf8Char(cp) ==
  IF cp < 128 THEN <<cp>>
  ELSE IF cp < 2048 THEN <<192 + (cp \div 64), 128 + (cp % 64)>>
  ELSE IF cp < 65536
       THEN <<224 + (cp \div 4096), 128 + ((cp \div 64) % 64), 128 + (cp % 64)>>
  ELSE <<240 + (cp \div 262144), 128 + ((cp \div 4096) % 64),
         128 + ((cp \div 64) % 64), 128 + (cp % 64)>>

RECURSIVE Utf8Encode(_)
Utf8Encode(s) ==
  IF s = << >> THEN << >> ELSE Utf8Char(Head(s)) \o Utf8Encode(Tail(s))

IsCont(b) == b >= 128 /\ b <= 191

\* a decoded code point before the decoded rest, unless the rest is invalid
Utf8Cons(cp, rest) == IF rest = DecodeError THEN DecodeError ELSE <<cp>> \o rest

\* variant: bytes.decode("latin-1"), every byte a code point
Latin1Decode(b) == b

\* bytes.decode(): strict UTF-8; DecodeError stands for UnicodeDecodeError
RECURSIVE Utf8Decode(_)
Utf8Decode(b) ==
  IF b = << >> THEN << >>
  ELSE
    LET b1 == b[1]
        n  == IF b1 < 128 THEN 1
              ELSE IF b1 >= 194 /\ b1 <= 223 THEN 2
              ELSE IF b1 >= 224 /\ b1 <= 239 THEN 3
              ELSE IF b1 >= 240 /\ b1 <= 244 THEN 4
              ELSE 0
        ok == /\ n > 0
              /\ Len(b) >= n
              /\ \A i \in 2..n : IsCont(b[i])
              /\ (b1 = 224 => b[2] >= 160)
              /\ (b1 = 237 => b[2] <= 159)
              /\ (b1 = 240 => b[2] >= 144)
              /\ (b1 = 244 => b[2] <= 143)
        cp == IF n = 1 THEN b1
              ELSE IF n = 2 THEN (b1 - 192) * 64 + (b[2] - 128)
              ELSE IF n = 3
                   THEN (b1 - 224) * 4096 + (b[2] - 128) * 64 + (b[3] - 128)
              ELSE (b1 - 240) * 262144 + (b[2] - 128) * 4096
                   + (b[3] - 128) * 64 + (b[4] - 128)
    IN  IF ~ok THEN DecodeError
        ELSE Utf8Cons(cp, Utf8Decode(SubSeq(b, n + 1, Len(b))))

(***************************************************************************)
(* base64.b64encode / base64.b64decode (the fallback codec)                *)
(***************************************************************************)
Pad == 61

\* the standard alphabet: sextet value -> ASCII byte
B64Char(v) ==
  IF v < 26 THEN 65 + v
  ELSE IF v < 52 THEN 97 + (v - 26)
  ELSE IF v < 62 THEN 48 + (v - 52)
  ELSE IF v = 62 THEN 43
  ELSE 47

\* ASCII byte -> sextet value, 64 for a byte outside the alphabet
B64Val(c) ==
  IF c >= 65 /\ c <= 90 THEN c - 65
  ELSE IF c >= 97 /\ c <= 122 THEN c - 97 + 26
  ELSE IF c >= 48 /\ c <= 57 THEN c - 48 + 52
  ELSE IF c = 43 THEN 62
  ELSE IF c = 47 THEN 63
  ELSE 64

RECURSIVE B64Encode(_)
B64Encode(b) ==
  IF b = << >> THEN << >>
  ELSE IF Len(b) = 1
       THEN <<B64Char(b[1] \div 4), B64Char((b[1] % 4) * 16), Pad, Pad>>
  ELSE IF Len(b) = 2
       THEN <<B64Char(b[1] \div 4),
              B64Char((b[1] % 4) * 16 + (b[2] \div 16)),
              B64Char((b[2] % 16) * 4), Pad>>
  ELSE <<B64Char(b[1] \div 4),
         B64Char((b[1] % 4) * 16 + (b[2] \div 16)),
         B64Char((b[2] % 16) * 4 + (b[3] \div 64)),
         B64Char(b[3] % 64)>> \o B64Encode(SubSeq(b, 4, Len(b)))

\* binascii.a2b_base64, non-strict: bytes outside the alphabet are skipped, a
\* complete pad sequence ends the parse, a dangling quad is an error
RECURSIVE B64Scan(_, _, _, _, _)
B64Scan(c, quad, left, pads, out) ==
  IF c = << >> THEN (IF quad # 0 THEN DecodeError ELSE out)
  ELSE
    LET ch == Head(c)
        v  == B64Val(ch)
    IN  IF ch = Pad
        THEN IF quad >= 2 /\ quad + pads + 1 >= 4 THEN out
             ELSE B64Scan(Tail(c), quad, left,
                          IF quad >= 2 THEN pads + 1 ELSE pads, out)
        ELSE IF v = 64 THEN B64Scan(Tail(c), quad, left, pads, out)
        ELSE IF quad = 0 THEN B64Scan(Tail(c), 1, v, 0, out)
        ELSE IF quad = 1
             THEN B64Scan(Tail(c), 2, v % 16, 0,
                          Append(out, left * 4 + (v \div 16)))
        ELSE IF quad = 2
             THEN B64Scan(Tail(c), 3, v % 4, 0,
                          Append(out, left * 16 + (v \div 4)))
        ELSE B64Scan(Tail(c), 0, 0, 0, Append(out, left * 64 + v))

B64Decode(c) == B64Scan(c, 0, 0, 0, << >>)

(***************************************************************************)
(* Fernet.encrypt / Fernet.decrypt                                         *)
(* A token is version byte 0x80, the IV, the ciphertext of the PKCS7       *)
(* padded plaintext, then the keyed tag over all of these.  The block      *)
(* cipher is a keyed byte substitution and the tag a keyed, injective      *)
(* image of the bytes it covers; the timestamp, which decrypt without a    *)
(* ttl only authenticates, is left out.                                    *)
(***************************************************************************)
Version == 128
BlockSize == 16

Pkcs7Pad(b) ==
  LET p == BlockSize - (Len(b) % BlockSize)
  IN  b \o [i \in 1..p |-> p]

\* the unpadded bytes, DecodeError when the padding is malformed
Pkcs7Unpad(b) ==
  IF b = << >> \/ Len(b) % BlockSize # 0 THEN DecodeError
  ELSE LET p == b[Len(b)]
       IN  IF p < 1 \/ p > BlockSize THEN DecodeError
           ELSE IF \E i \in (Len(b) - p + 1)..Len(b) : b[i] # p
                THEN DecodeError
           ELSE SubSeq(b, 1, Len(b) - p)

Cipher(key, iv, b) == [i \in 1..Len(b) |-> (b[i] + key + iv) % 256]

Decipher(key, iv, c) == [i \in 1..Len(c) |-> (c[i] + 512 - key - iv) % 256]

Hmac(key, body) == [i \in 1..Len(body) |-> (body[i] + key * i) % 256]

FernetEncrypt(key, iv, data) ==
  LET body == <<Version, iv>> \o Cipher(key, iv, Pkcs7Pad(data))
  IN  body \o Hmac(key, body)

\* the token's signed part and tag, once split: verify, then decrypt and unpad
FernetOpen(key, body, tag) ==
  IF body[1] # Version \/ tag # Hmac(key, body) THEN DecodeError
  ELSE Pkcs7Unpad(Decipher(key, body[2], SubSeq(body, 3, Len(body))))

\* the plaintext bytes, DecodeError (InvalidToken) when the token is malformed
\* or its tag does not verify
FernetDecrypt(key, token) ==
  IF Len(token) % 2 # 0 \/ Len(token) \div 2 < 2 + BlockSize THEN DecodeError
  ELSE FernetOpen(key, SubSeq(token, 1, Len(token) \div 2),
                  SubSeq(token, Len(token) \div 2 + 1, Len(token)))

(***************************************************************************)
(* DatabaseManager._enc / _dec                                             *)
(***************************************************************************)
\* _enc(s) under self.fernet = f, with iv the randomness Fernet draws
Enc(f, iv, s) ==
  IF f # NoKey THEN FernetEncrypt(f, iv, Utf8Encode(s))
  ELSE B64Encode(Utf8Encode(s))

\* .decode() of the bytes the codec returned, unless the codec raised
Decoded(raw) == IF raw = DecodeError THEN DecodeError ELSE Utf8Decode(raw)

\* _dec(b) under self.fernet = f; DecodeError when it raises.  The codec's
\* bytes are computed first, then decoded.
Dec(f, b) ==
  CHOOSE s \in {Decoded(raw) :
                 raw \in {IF f # NoKey THEN FernetDecrypt(f, b) ELSE B64Decode(b)}} :
    TRUE

(***************************************************************************)
(* State                                                                   *)
(***************************************************************************)
VARIABLES
  cryptoOk,     \* CRYPTO_OK: whether `from cryptography.fernet import Fernet` works
  keyFile,      \* content of secret.key, NoKey while the file does not exist
  fernet,       \* self.fernet: the loaded key, NoKey for None
  disk,         \* the committed table in students.db: id -> row
  conn,         \* the table as self.conn sees it: disk plus uncommitted changes
  pc,           \* where the process / main thread is
  cur,          \* the shell's current (or last) call and its outcome
  tpc,          \* thread -> position inside its target
  cursor,       \* thread -> the rows its cur.fetchall() returned
  tres,         \* thread -> the list `res` it has built so far
  lock,         \* PRINT_LOCK: 0 when free, else the thread holding it
  written,      \* history: id -> the plaintext grade last written through conn
  writtenDisk,  \* history: the same for the committed table
  tampered,     \* history: the storage file was corrupted from outside
  console       \* the lines printed during the demo: the thread that printed each

vars == <<cryptoOk, keyFile, fernet, disk, conn, pc, cur, tpc, cursor, tres,
          lock, written, writtenDisk, tampered, console>>

\* the two threads of concurrent_read_demo
DemoThreads == {1, 2}

\* a further caller of list_students on the same DatabaseManager
ClientThread == 3

Threads == DemoThreads \cup {ClientThread}

\* Student(1, "Alice", 20, "A+"), the seed record of main()
SeedStudent == [id |-> 1, name |-> "Alice", age |-> 20, grade |-> <<65, 43>>]

Stopped == {"init", "exited", "terminated", "killed"}

Call(op, id, grade, outcome, res) ==
  [op |-> op, id |-> id, grade |-> grade, outcome |-> outcome, res |-> res]

(***************************************************************************)
(* SQL statements on a table (a function from the ids present to rows)     *)
(***************************************************************************)
Row(name, age, blob) == [name |-> name, age |-> age, grade_enc |-> blob]

\* variant: the id column without its key (INSERT OR REPLACE)
NoPrimaryKey(tbl, id) == FALSE

\* id INTEGER PRIMARY KEY: an INSERT of a present id raises IntegrityError
PrimaryKeyViolation(tbl, id) == id \in DOMAIN tbl

\* INSERT INTO students(id, name, age, grade_enc) VALUES(?, ?, ?, ?)
SqlInsert(tbl, id, row) ==
  [i \in DOMAIN tbl \cup {id} |-> IF i = id THEN row ELSE tbl[i]]

\* variant: UPDATE without its WHERE clause
SqlUpdateAllGrades(tbl, id, blob) ==
  [i \in DOMAIN tbl |-> [tbl[i] EXCEPT !.grade_enc = blob]]

\* UPDATE students SET grade_enc=? WHERE id=?
SqlUpdateGrade(tbl, id, blob) ==
  [i \in DOMAIN tbl |-> IF i = id THEN [tbl[i] EXCEPT !.grade_enc = blob]
                        ELSE tbl[i]]

\* variant: DELETE ... WHERE id<=?
SqlDeleteUpTo(tbl, id) == [i \in {j \in DOMAIN tbl : j > id} |-> tbl[i]]

\* DELETE FROM students WHERE id=?
SqlDelete(tbl, id) == [i \in DOMAIN tbl \ {id} |-> tbl[i]]

Min(S) == CHOOSE x \in S : \A y \in S : x <= y

Max(S) == CHOOSE x \in S : \A y \in S : x >= y

\* variant: ORDER BY id DESC
RECURSIVE OrderByIdDesc(_)
OrderByIdDesc(S) ==
  IF S = {} THEN << >> ELSE <<Max(S)>> \o OrderByIdDesc(S \ {Max(S)})

\* ORDER BY id
RECURSIVE OrderById(_)
OrderById(S) ==
  IF S = {} THEN << >> ELSE <<Min(S)>> \o OrderById(S \ {Min(S)})

\* SELECT id, name, age, grade_enc FROM students ORDER BY id, then fetchall()
SqlSelectAll(tbl) ==
  LET ids == OrderById(DOMAIN tbl)
  IN  [k \in 1..Len(ids) |->
         [id |-> ids[k], name |-> tbl[ids[k]].name, age |-> tbl[ids[k]].age,
          grade_enc |-> tbl[ids[k]].grade_enc]]

(***************************************************************************)
(* DatabaseManager.list_students                                           *)
(***************************************************************************)
\* Student(id=row[0], name=row[1], age=row[2], grade=self._dec(row[3]))
StudentOf(f, row) ==
  [id |-> row.id, name |-> row.name, age |-> row.age,
   grade |-> Dec(f, row.grade_enc)]

\* the loop over the fetched rows; a grade of DecodeError marks the row on
\* which _dec raises
ListStudents(f, tbl) ==
  LET rows == SqlSelectAll(tbl)
  IN  [k \in 1..Len(rows) |-> StudentOf(f, rows[k])]

\* what the loop hands back: its list, or nothing when _dec raised in it
Returned(res) ==
  IF \E k \in 1..Len(res) : res[k].grade = DecodeError
  THEN [outcome |-> "DecryptError", res |-> << >>]
  ELSE [outcome |-> "ok", res |-> res]

\* variant: a listing that skips the rows whose _dec raises
RECURSIVE SkipBad(_, _)
SkipBad(f, rows) ==
  IF rows = << >> THEN << >>
  ELSE IF Dec(f, Head(rows).grade_enc) = DecodeError THEN SkipBad(f, Tail(rows))
  ELSE <<StudentOf(f, Head(rows))>> \o SkipBad(f, Tail(rows))

ListCallSkipping(f, tbl) ==
  [outcome |-> "ok", res |-> SkipBad(f, SqlSelectAll(tbl))]

\* list_students() as a call: its outcome and what the caller receives
ListCall(f, tbl) == Returned(ListStudents(f, tbl))

(***************************************************************************)
(* Start of the process                                                    *)
(***************************************************************************)
EmptyTable == [i \in {} |-> << >>]

\* what a start reports about its codec before the first _enc call: the
\* import's except branch only sets CRYPTO_OK, __init__ only sets self.fernet,
\* and main() prints nothing before the seed is added, whatever the import's
\* outcome ok was
StartupNotices(ok) == {}

\* history bookkeeping: the plaintext a caller last wrote for an id
HistPut(h, id, grade) == [i \in DOMAIN h \cup {id} |-> IF i = id THEN grade ELSE h[i]]

HistDrop(h, id) == [i \in DOMAIN h \ {id} |-> h[i]]

NoCall == Call("none", 0, << >>, "none", << >>)

Init ==
  /\ cryptoOk \in BOOLEAN
  /\ keyFile = NoKey
  /\ fernet = NoKey
  /\ disk = EmptyTable
  /\ conn = EmptyTable
  /\ pc = "init"
  /\ cur = NoCall
  /\ tpc = [t \in Threads |-> "idle"]
  /\ cursor = [t \in Threads |-> << >>]
  /\ tres = [t \in Threads |-> << >>]
  /\ lock = 0
  /\ written = EmptyTable
  /\ writtenDisk = EmptyTable
  /\ tampered = FALSE
  /\ console = << >>

\* DatabaseManager.__init__: connect, CREATE TABLE IF NOT EXISTS, commit, then
\* generate the key file if it is missing and load it
Construct ==
  /\ pc \in Stopped
  /\ conn' = disk
  /\ written' = writtenDisk
  /\ IF cryptoOk
     THEN IF keyFile = NoKey
          THEN \E k \in Keys : keyFile' = k /\ fernet' = k
          ELSE fernet' = keyFile /\ UNCHANGED keyFile
     ELSE fernet' = NoKey /\ UNCHANGED keyFile
  /\ pc' = "seed"
  /\ cur' = NoCall
  /\ UNCHANGED <<cryptoOk, disk, tpc, cursor, tres, lock, writtenDisk, tampered,
                 console>>

\* variant: the example record is added whenever no row has its id
SeedIfMissing ==
  /\ pc = "seed"
  /\ IF SeedStudent.id \notin DOMAIN conn
     THEN /\ \E iv \in IVs :
               conn' = SqlInsert(conn, SeedStudent.id,
                                 Row(SeedStudent.name, SeedStudent.age,
                                     Enc(fernet, iv, SeedStudent.grade)))
          /\ written' = HistPut(written, SeedStudent.id, SeedStudent.grade)
          /\ pc' = "commit"
          /\ cur' = Call("seed", SeedStudent.id, SeedStudent.grade,
                         "pending", << >>)
     ELSE /\ pc' = "menu"
          /\ cur' = Call("seed", 0, << >>, "skipped", << >>)
          /\ UNCHANGED <<conn, written>>
  /\ UNCHANGED <<cryptoOk, keyFile, fernet, disk, tpc, cursor, tres, lock,
                 writtenDisk, tampered, console>>

\* main(): if not db.list_students(): db.add_student(Student(1, "Alice", 20, "A+"))
\* An error here is outside the try of the menu loop and ends the process.
SeedOnEmpty ==
  /\ pc = "seed"
  /\ \E r \in {ListCall(fernet, conn)} :
         IF r.outcome # "ok"
         THEN /\ pc' = "terminated"
              /\ cur' = Call("seed", 0, << >>, r.outcome, << >>)
              /\ fernet' = NoKey
              /\ UNCHANGED <<conn, written>>
         ELSE IF r.res = << >>
         THEN /\ \E iv \in IVs :
                   conn' = SqlInsert(conn, SeedStudent.id,
                                     Row(SeedStudent.name, SeedStudent.age,
                                         Enc(fernet, iv, SeedStudent.grade)))
              /\ written' = HistPut(written, SeedStudent.id, SeedStudent.grade)
              /\ pc' = "commit"
              /\ cur' = Call("seed", SeedStudent.id, SeedStudent.grade,
                             "pending", << >>)
              /\ UNCHANGED fernet
         ELSE /\ pc' = "menu"
              /\ cur' = Call("seed", 0, << >>, "skipped", << >>)
              /\ UNCHANGED <<conn, written, fernet>>
  /\ UNCHANGED <<cryptoOk, keyFile, disk, tpc, cursor, tres, lock, writtenDisk,
                 tampered, console>>

(***************************************************************************)
(* The menu loop: choices 1 to 4                                           *)
(***************************************************************************)
\* variant: the row is inserted before its ciphertext is computed
AddStudentLateEnc(id, who, grade) ==
  /\ pc = "menu"
  /\ IF PrimaryKeyViolation(conn, id)
     THEN /\ cur' = Call("add", id, grade, "IntegrityError", << >>)
          /\ UNCHANGED <<conn, written, pc>>
     ELSE /\ conn' = SqlInsert(conn, id, Row(who.name, who.age, << >>))
          /\ written' = HistPut(written, id, grade)
          /\ pc' = "commit"
          /\ cur' = Call("add", id, grade, "pending", << >>)
  /\ UNCHANGED <<cryptoOk, keyFile, fernet, disk, tpc, cursor, tres, lock,
                 writtenDisk, tampered, console>>

\* choice 1 up to the INSERT of add_student; IntegrityError leaves the table
\* as it was and is caught by the loop's except
AddStudent(id, who, grade) ==
  /\ pc = "menu"
  /\ IF PrimaryKeyViolation(conn, id)
     THEN /\ cur' = Call("add", id, grade, "IntegrityError", << >>)
          /\ UNCHANGED <<conn, written, pc>>
     ELSE /\ \E iv \in IVs :
               conn' = SqlInsert(conn, id,
                                 Row(who.name, who.age, Enc(fernet, iv, grade)))
          /\ written' = HistPut(written, id, grade)
          /\ pc' = "commit"
          /\ cur' = Call("add", id, grade, "pending", << >>)
  /\ UNCHANGED <<cryptoOk, keyFile, fernet, disk, tpc, cursor, tres, lock,
                 writtenDisk, tampered, console>>

\* choice 3 up to the UPDATE of update_grade
UpdateGrade(id, grade) ==
  /\ pc = "menu"
  /\ \E iv \in IVs : conn' = SqlUpdateGrade(conn, id, Enc(fernet, iv, grade))
  /\ written' = (IF id \in DOMAIN conn THEN HistPut(written, id, grade)
                  ELSE written)
  /\ pc' = "commit"
  /\ cur' = Call("update", id, grade, "pending", << >>)
  /\ UNCHANGED <<cryptoOk, keyFile, fernet, disk, tpc, cursor, tres, lock,
                 writtenDisk, tampered, console>>

\* choice 4 up to the DELETE of delete_student
DeleteStudent(id) ==
  /\ pc = "menu"
  /\ conn' = SqlDelete(conn, id)
  /\ written' = HistDrop(written, id)
  /\ pc' = "commit"
  /\ cur' = Call("delete", id, << >>, "pending", << >>)
  /\ UNCHANGED <<cryptoOk, keyFile, fernet, disk, tpc, cursor, tres, lock,
                 writtenDisk, tampered, console>>

\* variant: the call returns without self.conn.commit()
CommitOmitted ==
  /\ pc = "commit"
  /\ pc' = "menu"
  /\ cur' = [cur EXCEPT !.outcome = "ok"]
  /\ UNCHANGED <<cryptoOk, keyFile, fernet, disk, conn, tpc, cursor, tres, lock,
                 written, writtenDisk, tampered, console>>

\* self.conn.commit(), the return, and the shell's "Added." / "Updated." /
\* "Deleted."
Commit ==
  /\ pc = "commit"
  /\ disk' = conn
  /\ writtenDisk' = written
  /\ pc' = "menu"
  /\ cur' = [cur EXCEPT !.outcome = "ok"]
  /\ UNCHANGED <<cryptoOk, keyFile, fernet, conn, tpc, cursor, tres, lock,
                 written, tampered, console>>

\* int(input(...)) raises ValueError in choice 1, 3 or 4: caught by the loop
BadNumber(op) ==
  /\ pc = "menu"
  /\ cur' = Call(op, 0, << >>, "ValueError", << >>)
  /\ UNCHANGED <<cryptoOk, keyFile, fernet, disk, conn, pc, tpc, cursor, tres,
                 lock, written, writtenDisk, tampered, console>>

\* choice 2: print_students(db.list_students()); the main thread takes and
\* releases PRINT_LOCK around the printing
ListAndPrint ==
  /\ pc = "menu"
  /\ lock = 0
  /\ \E r \in {ListCall(fernet, conn)} :
       cur' = Call("list", 0, << >>, r.outcome, r.res)
  /\ UNCHANGED <<cryptoOk, keyFile, fernet, disk, conn, pc, tpc, cursor, tres,
                 lock, written, writtenDisk, tampered, console>>

\* any other text: "Invalid choice."
InvalidChoice ==
  /\ pc = "menu"
  /\ cur' = Call("invalid", 0, << >>, "ok", << >>)
  /\ UNCHANGED <<cryptoOk, keyFile, fernet, disk, conn, pc, tpc, cursor, tres,
                 lock, written, writtenDisk, tampered, console>>

\* choice 6: break, and the process ends
Exit ==
  /\ pc = "menu"
  /\ pc' = "exited"
  /\ fernet' = NoKey
  /\ cur' = Call("exit", 0, << >>, "ok", << >>)
  /\ UNCHANGED <<cryptoOk, keyFile, disk, conn, tpc, cursor, tres, lock,
                 written, writtenDisk, tampered, console>>

(***************************************************************************)
(* Threads: concurrent_read_demo runs print_students(db.list_students())   *)
(* in two threads and joins both                                           *)
(***************************************************************************)
\* choice 5: t1.start(); t2.start()
StartDemo ==
  /\ pc = "menu"
  /\ \A t \in DemoThreads : tpc[t] = "idle"
  /\ tpc' = [t \in Threads |-> IF t \in DemoThreads THEN "select" ELSE tpc[t]]
  /\ pc' = "join"
  /\ cur' = Call("demo", 0, << >>, "pending", << >>)
  /\ UNCHANGED <<cryptoOk, keyFile, fernet, disk, conn, cursor, tres, lock,
                 written, writtenDisk, tampered, console>>

\* variant: one cursor kept on the DatabaseManager and used by every call
SharedCursor(t) == 1

\* the cursor a thread's conn.execute returns: each call gets its own
CursorOf(t) == t

\* cur = self.conn.execute("SELECT ... ORDER BY id"); cur.fetchall(); res = []
ThreadSelect(t) ==
  /\ tpc[t] = "select"
  /\ cursor' = [cursor EXCEPT ![CursorOf(t)] = SqlSelectAll(conn)]
  /\ tres' = [tres EXCEPT ![t] = << >>]
  /\ tpc' = [tpc EXCEPT ![t] = "decrypt"]
  /\ UNCHANGED <<cryptoOk, keyFile, fernet, disk, conn, pc, cur, lock, written,
                 writtenDisk, tampered, console>>

\* one turn of the for loop: res.append(Student(..., grade=self._dec(row[3])));
\* a raise ends the thread with its locals
ThreadDecrypt(t) ==
  /\ tpc[t] = "decrypt"
  /\ Len(tres[t]) < Len(cursor[CursorOf(t)])
  /\ \E st \in {StudentOf(fernet, cursor[CursorOf(t)][Len(tres[t]) + 1])} :
       IF st.grade = DecodeError
       THEN /\ tpc' = [tpc EXCEPT ![t] = "failed"]
            /\ tres' = [tres EXCEPT ![t] = << >>]
            /\ cursor' = [cursor EXCEPT ![CursorOf(t)] = << >>]
       ELSE /\ tres' = [tres EXCEPT ![t] = Append(@, st)]
            /\ UNCHANGED <<tpc, cursor>>
  /\ UNCHANGED <<cryptoOk, keyFile, fernet, disk, conn, pc, cur, lock, written,
                 writtenDisk, tampered, console>>

\* return res: a demo thread goes on into print_students
ThreadReturn(t) ==
  /\ tpc[t] = "decrypt"
  /\ Len(tres[t]) >= Len(cursor[CursorOf(t)])
  /\ tpc' = [tpc EXCEPT ![t] = IF t \in DemoThreads THEN "lock" ELSE "done"]
  /\ cursor' = [cursor EXCEPT ![CursorOf(t)] = << >>]
  /\ UNCHANGED <<cryptoOk, keyFile, fernet, disk, conn, pc, cur, tres, lock,
                 written, writtenDisk, tampered, console>>

\* variant: print_students without `with PRINT_LOCK:`
PrintUnlocked(t) ==
  /\ tpc[t] = "lock"
  /\ tpc' = [tpc EXCEPT ![t] = "print"]
  /\ UNCHANGED <<cryptoOk, keyFile, fernet, disk, conn, pc, cur, cursor, tres,
                 lock, written, writtenDisk, tampered, console>>

\* with PRINT_LOCK: (entry)
ThreadAcquire(t) ==
  /\ tpc[t] = "lock"
  /\ lock = 0
  /\ lock' = t
  /\ tpc' = [tpc EXCEPT ![t] = "print"]
  /\ UNCHANGED <<cryptoOk, keyFile, fernet, disk, conn, pc, cur, cursor, tres,
                 written, writtenDisk, tampered, console>>

\* the lines thread t has printed so far
Printed(t) == Cardinality({k \in 1..Len(console) : console[k] = t})

\* the lines of one listing: the header, the separator and one per student
Lines(students) == 2 + Len(students)

\* one print(...) call inside the with block
ThreadPrint(t) ==
  /\ tpc[t] = "print"
  /\ Printed(t) < Lines(tres[t])
  /\ console' = Append(console, t)
  /\ UNCHANGED <<cryptoOk, keyFile, fernet, disk, conn, pc, cur, tpc, cursor,
                 tres, lock, written, writtenDisk, tampered>>

\* the end of the with block after the last line: PRINT_LOCK is released and
\* the thread's target returns
ThreadRelease(t) ==
  /\ tpc[t] = "print"
  /\ Printed(t) >= Lines(tres[t])
  /\ lock' = 0
  /\ tpc' = [tpc EXCEPT ![t] = "done"]
  /\ UNCHANGED <<cryptoOk, keyFile, fernet, disk, conn, pc, cur, cursor, tres,
                 written, writtenDisk, tampered, console>>

\* t1.join(); t2.join()
Join ==
  /\ pc = "join"
  /\ \A t \in DemoThreads : tpc[t] \in {"done", "failed"}
  /\ tpc' = [t \in Threads |-> IF t \in DemoThreads THEN "idle" ELSE tpc[t]]
  /\ tres' = [t \in Threads |-> IF t \in DemoThreads THEN << >> ELSE tres[t]]
  /\ console' = << >>
  /\ pc' = "menu"
  /\ cur' = [cur EXCEPT !.outcome = "ok"]
  /\ UNCHANGED <<cryptoOk, keyFile, fernet, disk, conn, cursor, lock, written,
                 writtenDisk, tampered>>

(***************************************************************************)
(* The environment                                                         *)
(***************************************************************************)
\* the process is killed: the connection and its uncommitted changes are gone
Crash ==
  /\ pc \notin Stopped
  /\ pc' = "killed"
  /\ conn' = disk
  /\ written' = writtenDisk
  /\ fernet' = NoKey
  /\ tpc' = [t \in Threads |-> "idle"]
  /\ cursor' = [t \in Threads |-> << >>]
  /\ tres' = [t \in Threads |-> << >>]
  /\ lock' = 0
  /\ cur' = NoCall
  /\ console' = << >>
  /\ UNCHANGED <<cryptoOk, keyFile, disk, writtenDisk, tampered>>

\* one step of one running thread
ThreadStep ==
  \/ \E t \in Threads : ThreadSelect(t)
  \/ \E t \in Threads : ThreadDecrypt(t)
  \/ \E t \in Threads : ThreadReturn(t)
  \/ \E t \in Threads : ThreadAcquire(t)
  \/ \E t \in Threads : ThreadPrint(t)
  \/ \E t \in Threads : ThreadRelease(t)

Next ==
  \/ Construct
  \/ SeedOnEmpty
  \/ \E id \in Ids, who \in People, grade \in Grades : AddStudent(id, who, grade)
  \/ \E id \in Ids, grade \in Grades : UpdateGrade(id, grade)
  \/ \E id \in Ids : DeleteStudent(id)
  \/ Commit
  \/ \E op \in {"add", "update", "delete"} : BadNumber(op)
  \/ ListAndPrint
  \/ InvalidChoice
  \/ Exit
  \/ StartDemo
  \/ ThreadStep
  \/ Join
  \/ Crash

Spec == Init /\ [][Next]_vars

(***************************************************************************)
(* A further thread that calls db.list_students() while the shell works:   *)
(* the connection is opened with check_same_thread=False for such callers  *)
(***************************************************************************)
\* the call starts while a writer is between its execute and its commit
ClientStart ==
  /\ pc = "commit"
  /\ tpc[ClientThread] = "idle"
  /\ tpc' = [tpc EXCEPT ![ClientThread] = "select"]
  /\ UNCHANGED <<cryptoOk, keyFile, fernet, disk, conn, pc, cur, cursor, tres,
                 lock, written, writtenDisk, tampered, console>>

\* the caller drops the list it received
ClientFinish ==
  /\ tpc[ClientThread] \in {"done", "failed"}
  /\ tpc' = [tpc EXCEPT ![ClientThread] = "idle"]
  /\ tres' = [tres EXCEPT ![ClientThread] = << >>]
  /\ UNCHANGED <<cryptoOk, keyFile, fernet, disk, conn, pc, cur, cursor, lock,
                 written, writtenDisk, tampered, console>>

ClientIdle == tpc[ClientThread] = "idle"

\* The caller's steps after its SELECT are local to it, so only the steps that
\* can change what it reads (the commit, a crash) are interleaved with its call.
NextClients ==
  \/ ClientStart
  \/ ClientFinish
  \/ Commit
  \/ ThreadStep
  \/ Crash
  \/ ClientIdle /\ Construct
  \/ ClientIdle /\ SeedOnEmpty
  \/ ClientIdle /\ \E id \in Ids, who \in People, grade \in Grades :
                      AddStudent(id, who, grade)
  \/ ClientIdle /\ \E id \in Ids, grade \in Grades : UpdateGrade(id, grade)
  \/ ClientIdle /\ \E id \in Ids : DeleteStudent(id)
  \/ ClientIdle /\ \E op \in {"add", "update", "delete"} : BadNumber(op)
  \/ ClientIdle /\ ListAndPrint
  \/ ClientIdle /\ InvalidChoice
  \/ ClientIdle /\ Exit
  \/ ClientIdle /\ StartDemo
  \/ ClientIdle /\ Join

SpecClients == Init /\ [][NextClients]_vars

(***************************************************************************)
(* Corruption of the storage file from outside the program                 *)
(***************************************************************************)
\* a BLOB with its first byte overwritten by 'A', or with its last byte cut
TamperedBlobs(b) ==
  ({[b EXCEPT ![i] = 65] : i \in {1} \cap (1..Len(b))}
   \cup {SubSeq(b, 1, Len(b) - 1)}) \ {b}

\* one stored grade_enc is corrupted once, while the shell waits at its prompt
\* with no transaction open.  cur is history that the program never reads, so
\* the corruption is placed after a listing of the intact file.
Tamper ==
  /\ ~tampered
  /\ pc = "menu"
  /\ cur.op = "list"
  /\ conn = disk
  /\ \E id \in DOMAIN disk :
       \E b \in TamperedBlobs(disk[id].grade_enc) :
         /\ disk' = [disk EXCEPT ![id].grade_enc = b]
         /\ conn' = disk'
  /\ tampered' = TRUE
  /\ UNCHANGED <<cryptoOk, keyFile, fernet, pc, cur, tpc, cursor, tres, lock,
                 written, writtenDisk, console>>

\* what the program does with a corrupted file: it reads it, in the shell and
\* in the demo threads, across restarts; writes stop once the file is corrupt
NextTamper ==
  \/ Tamper
  \/ Construct
  \/ SeedOnEmpty
  \/ Commit
  \/ ListAndPrint
  \/ Exit
  \/ StartDemo
  \/ ThreadStep
  \/ Join
  \/ Crash
  \/ ~tampered /\ \E id \in Ids, who \in People, grade \in Grades :
                     AddStudent(id, who, grade)
  \/ ~tampered /\ \E id \in Ids, grade \in Grades : UpdateGrade(id, grade)
  \/ ~tampered /\ \E id \in Ids : DeleteStudent(id)
  \/ ~tampered /\ \E op \in {"add", "update", "delete"} : BadNumber(op)
  \/ ~tampered /\ InvalidChoice

SpecTamper == Init /\ [][NextTamper]_vars

(***************************************************************************)
(* The demo when a print call can fail (a closed or non-UTF-8 console), on *)
(* an intact or a corrupted file, with every running thread scheduled.     *)
(* What the demo does depends on the store only through the number of rows *)
(* and the rows that fail to decrypt, so the user of this session adds the *)
(* example record under any id, lists, and runs the demo.                  *)
(***************************************************************************)
\* variant: PRINT_LOCK.acquire() with a release() only after the last print
PrintRaisesHoldingLock(t) ==
  /\ tpc[t] = "print"
  /\ Printed(t) < Lines(tres[t])
  /\ tpc' = [tpc EXCEPT ![t] = "failed"]
  /\ tres' = [tres EXCEPT ![t] = << >>]
  /\ UNCHANGED <<cryptoOk, keyFile, fernet, disk, conn, pc, cur, cursor, lock,
                 written, writtenDisk, tampered, console>>

\* a print(...) call inside the with block raises: the with statement releases
\* PRINT_LOCK and the exception ends the thread
PrintRaises(t) ==
  /\ tpc[t] = "print"
  /\ Printed(t) < Lines(tres[t])
  /\ lock' = 0
  /\ tpc' = [tpc EXCEPT ![t] = "failed"]
  /\ tres' = [tres EXCEPT ![t] = << >>]
  /\ UNCHANGED <<cryptoOk, keyFile, fernet, disk, conn, pc, cur, cursor, written,
                 writtenDisk, tampered, console>>

\* the steps thread t takes when it is scheduled
ThreadRun(t) ==
  \/ ThreadSelect(t)
  \/ ThreadDecrypt(t)
  \/ ThreadReturn(t)
  \/ ThreadAcquire(t)
  \/ ThreadPrint(t)
  \/ ThreadRelease(t)

NextDemo ==
  \/ Construct
  \/ SeedOnEmpty
  \/ \E id \in Ids, who \in {p \in People : p.name = SeedStudent.name} :
       AddStudent(id, who, SeedStudent.grade)
  \/ Commit
  \/ ListAndPrint
  \/ Tamper
  \/ StartDemo
  \/ ThreadStep
  \/ \E t \in DemoThreads : PrintRaises(t)
  \/ Join

\* a started thread that can take a step is scheduled eventually, and so is
\* the main thread waiting in join()
SpecDemo ==
  /\ Init
  /\ [][NextDemo]_vars
  /\ \A t \in DemoThreads : WF_vars(ThreadRun(t))
  /\ WF_vars(Join)

(***************************************************************************)
(* The import at the top of the module runs again at every process start   *)
(***************************************************************************)
\* between two starts the cryptography package is installed or removed, so the
\* next start's `from cryptography.fernet import Fernet` has the other outcome
Reinstall ==
  /\ pc \in Stopped \ {"init"}
  /\ cryptoOk' = ~cryptoOk
  /\ UNCHANGED <<keyFile, fernet, disk, conn, pc, cur, tpc, cursor, tres, lock,
                 written, writtenDisk, tampered, console>>

NextStarts ==
  \/ Reinstall
  \/ Construct
  \/ SeedOnEmpty
  \/ \E id \in Ids, who \in People, grade \in Grades : AddStudent(id, who, grade)
  \/ \E id \in Ids, grade \in Grades : UpdateGrade(id, grade)
  \/ \E id \in Ids : DeleteStudent(id)
  \/ Commit
  \/ \E op \in {"add", "update", "delete"} : BadNumber(op)
  \/ ListAndPrint
  \/ InvalidChoice
  \/ Exit
  \/ StartDemo
  \/ ThreadStep
  \/ Join
  \/ Crash

SpecStarts == Init /\ [][NextStarts]_vars

(***************************************************************************)
(* Properties                                                              *)
(***************************************************************************)
\* a step in which the shell calls op at its prompt and the call gets as far
\* as its SQL statement
Calls(op) ==
  /\ pc = "menu"
  /\ tampered' = tampered
  /\ cur'.op = op
  /\ cur'.outcome \in {"pending", "IntegrityError"}

\* the step in which the call op commits and returns
Returns(op) == pc = "commit" /\ cur.op = op /\ pc' = "menu"

\* the record a listing holds for id, as a set (empty when it holds none)
Listed(res, id) == {res[k] : k \in {j \in 1..Len(res) : res[j].id = id}}

\* C1: add_student of a record whose id is already present ends in an error
\* (IntegrityError, not a normal return) and leaves the store exactly as it
\* was: same rows, same name, age and stored grade, none added or removed.
C1_DuplicateAddRejected ==
  [][(Calls("add") /\ cur'.id \in DOMAIN conn)
       => /\ cur'.outcome = "IntegrityError"
          /\ pc' = "menu"
          /\ conn' = conn
          /\ disk' = disk]_vars

\* a duplicate add was rejected, and the rejected record carried another grade
\* than the row that stays
C1_Witness ==
  /\ pc = "menu"
  /\ cur.op = "add"
  /\ cur.outcome = "IntegrityError"
  /\ cur.id \in DOMAIN conn
  /\ conn = disk
  /\ Dec(fernet, conn[cur.id].grade_enc) # cur.grade

\* C2: after any sequence of successful add, update and delete calls,
\* list_students() returns exactly one record per id in the store, none
\* missing, none extra, none repeated, in strictly ascending id order.
C2_ListCompleteAndOrdered ==
  (pc = "menu" /\ cur.op = "list")
    => /\ cur.outcome = "ok"
       /\ Len(cur.res) = Cardinality(DOMAIN conn)
       /\ {cur.res[k].id : k \in 1..Len(cur.res)} = DOMAIN conn
       /\ \A j, k \in 1..Len(cur.res) : j < k => cur.res[j].id < cur.res[k].id

\* a listing of a full store was returned
C2_Witness ==
  /\ pc = "menu"
  /\ cur.op = "list"
  /\ cur.outcome = "ok"
  /\ Len(cur.res) = MaxId
  /\ cur.res[1].id = 1
  /\ cur.res[MaxId].id = MaxId

\* C3: update_grade(id, v) on a present id makes a later list_students() show
\* that record with grade v, its name and age unchanged, every other row
\* unchanged; on an absent id it creates no row and leaves the store unchanged;
\* in both cases it returns without error.
C3_UpdateGradeFrame ==
  /\ [][Calls("update")
          => \A id \in {cur'.id} :
               /\ cur'.outcome = "pending"
               /\ DOMAIN conn' = DOMAIN conn
               /\ \A i \in DOMAIN conn \ {id} : conn'[i] = conn[i]
               /\ id \notin DOMAIN conn => conn' = conn
               /\ id \in DOMAIN conn =>
                    \A after \in {ListCall(fernet, conn')} :
                      /\ after.outcome = "ok"
                      /\ Listed(after.res, id) =
                           {[id |-> id, name |-> conn[id].name,
                             age |-> conn[id].age, grade |-> cur'.grade]}]_vars
  /\ [][Returns("update")
          => cur'.outcome = "ok" /\ conn' = conn /\ disk' = conn]_vars

\* an update of one of several rows has returned
C3_Witness ==
  /\ pc = "menu"
  /\ cur.op = "update"
  /\ cur.outcome = "ok"
  /\ cur.id \in DOMAIN conn
  /\ Cardinality(DOMAIN conn) >= 2
  /\ \E i \in DOMAIN conn : Dec(fernet, conn[i].grade_enc) # cur.grade

\* C4: delete_student(id) removes the row with that id and no other, so a
\* later list_students() excludes the id and still holds every other record
\* unchanged; on an absent id (a second delete included) it returns without
\* error and leaves the store unchanged.
C4_DeleteFrame ==
  /\ [][Calls("delete")
          => \A id \in {cur'.id}, before \in {ListCall(fernet, conn)},
                after \in {ListCall(fernet, conn')} :
               /\ cur'.outcome = "pending"
               /\ DOMAIN conn' = DOMAIN conn \ {id}
               /\ \A i \in DOMAIN conn \ {id} : conn'[i] = conn[i]
               /\ id \notin DOMAIN conn => conn' = conn
               /\ Listed(after.res, id) = {}
               /\ \A i \in DOMAIN conn \ {id} :
                    /\ Listed(after.res, i) = Listed(before.res, i)
                    /\ Listed(after.res, i) # {}]_vars
  /\ [][Returns("delete")
          => cur'.outcome = "ok" /\ conn' = conn /\ disk' = conn]_vars

\* a delete of an absent id has returned and another row is still stored
C4_Witness ==
  /\ pc = "menu"
  /\ cur.op = "delete"
  /\ cur.outcome = "ok"
  /\ cur.id \notin DOMAIN conn
  /\ conn = disk
  /\ \E i \in DOMAIN conn : i > cur.id

\* C5: under the codec the constructor has set up, a Fernet key or the base64
\* fallback, _dec(_enc(s)) = s for every grade of the input set, the empty
\* string included; so every record that list_students() returns carries the
\* plaintext last written for its id.
C5_RoundTrip ==
  /\ pc = "seed"
       => \A s \in Grades, iv \in IVs : Dec(fernet, Enc(fernet, iv, s)) = s
  /\ (pc = "menu" /\ cur.op = "list")
       => \A k \in 1..Len(cur.res) :
            /\ cur.res[k].id \in DOMAIN written
            /\ cur.res[k].grade = written[cur.res[k].id]
  /\ \A t \in Threads : \A k \in 1..Len(tres[t]) :
       /\ tres[t][k].id \in DOMAIN written
       /\ tres[t][k].grade = written[tres[t][k].id]

\* a listing returned the empty grade and the non-ASCII grade
C5_Witness ==
  /\ pc = "menu"
  /\ cur.op = "list"
  /\ cur.outcome = "ok"
  /\ Len(cur.res) >= 2
  /\ \E k \in 1..Len(cur.res) : cur.res[k].grade = << >>
  /\ \E k \in 1..Len(cur.res) : cur.res[k].grade = <<65, 233>>

\* what a returned call has made durable
Durable(c) ==
  /\ c.op \in {"add", "seed"} /\ c.id # 0 =>
       /\ c.id \in DOMAIN disk
       /\ Dec(fernet, disk[c.id].grade_enc) = c.grade
  /\ c.op = "update" /\ c.id \in DOMAIN conn =>
       /\ c.id \in DOMAIN disk
       /\ Dec(fernet, disk[c.id].grade_enc) = c.grade
  /\ c.op = "delete" => c.id \notin DOMAIN disk

\* C6: when add_student, update_grade or delete_student has returned
\* successfully, nothing uncommitted is pending on the connection and the
\* committed table holds the call's effect, and a crash after the return
\* leaves the committed table as it is.
C6_CommitBeforeReturn ==
  /\ [](pc = "menu" => conn = disk)
  /\ []((pc = "menu" /\ cur.outcome = "ok") => Durable(cur))
  /\ [][(pc = "menu" /\ pc' = "killed") => (disk' = disk /\ conn' = disk)]_vars

\* an add has returned and its row is in the committed table
C6_Witness ==
  /\ pc = "menu"
  /\ cur.op = "add"
  /\ cur.outcome = "ok"
  /\ cur.id \in DOMAIN disk
  /\ Cardinality(DOMAIN disk) >= 2

\* C7: in every reachable state, in both codec modes and for every grade a
\* caller can supply (the empty string included), the grade_enc stored for a
\* row is not the plaintext bytes of its grade.
C7_NeverPlaintext ==
  /\ \A id \in DOMAIN conn : conn[id].grade_enc # Utf8Encode(written[id])
  /\ \A id \in DOMAIN disk : disk[id].grade_enc # Utf8Encode(writtenDisk[id])

\* res holds, in order, the first Len(res) records of the table tbl, each with
\* the grade last written for it
ListingPrefix(res, tbl, hist) ==
  \A k \in 1..Len(res) :
    /\ res[k].id \in DOMAIN tbl
    /\ Cardinality({i \in DOMAIN tbl : i < res[k].id}) = k - 1
    /\ res[k].name = tbl[res[k].id].name
    /\ res[k].age = tbl[res[k].id].age
    /\ res[k].grade = hist[res[k].id]

\* C8: two threads that call list_students() at once on a store of N records,
\* with no writer active, each build and return their own list of all N
\* records, ascending by id, every grade decrypted, under every interleaving.
C8_ConcurrentLists ==
  \A t \in DemoThreads :
    /\ tpc[t] # "failed"
    /\ ListingPrefix(tres[t], conn, written)
    /\ tpc[t] \in {"lock", "print", "done"}
         => Len(tres[t]) = Cardinality(DOMAIN conn)

\* one thread has returned all N records while the other is inside its loop
C8_Witness ==
  /\ pc = "join"
  /\ tpc[1] = "decrypt"
  /\ Len(tres[1]) = 1
  /\ tpc[2] = "done"
  /\ Len(tres[2]) = MaxId

\* C9: in every state, between a writer's execute and its commit included,
\* every row visible on the connection has a grade_enc that decrypts to the
\* grade supplied by the call that wrote it, and so has every row a concurrent
\* list_students() fetched or returned.
C9_RowsWellFormed ==
  /\ DOMAIN written = DOMAIN conn
  /\ pc \notin Stopped =>
       \A id \in DOMAIN conn :
         /\ conn[id].grade_enc \in Seq(0..255)
         /\ Dec(fernet, conn[id].grade_enc) = written[id]
  /\ \A t \in Threads :
       /\ tpc[t] # "failed"
       /\ \A k \in 1..Len(cursor[t]) :
            /\ cursor[t][k].id \in DOMAIN written
            /\ Dec(fernet, cursor[t][k].grade_enc) = written[cursor[t][k].id]
       /\ \A k \in 1..Len(tres[t]) :
            /\ tres[t][k].id \in DOMAIN written
            /\ tres[t][k].grade = written[tres[t][k].id]

\* a reader has returned a row that an add has inserted and not yet committed
C9_Witness ==
  /\ pc = "commit"
  /\ cur.op = "add"
  /\ cur.id \notin DOMAIN disk
  /\ tpc[ClientThread] = "done"
  /\ Listed(tres[ClientThread], cur.id) # {}
  /\ Len(tres[ClientThread]) = MaxId

\* some stored ciphertext of the table does not decrypt
SomeCorrupt(tbl) ==
  \E id \in DOMAIN tbl : Dec(fernet, tbl[id].grade_enc) = DecodeError

\* C10: when a stored ciphertext fails to decrypt, list_students() raises and
\* hands its caller no list at all, not even the rows before the corrupt one,
\* and the failed listing leaves the store unchanged.
C10_ListAbortsWhole ==
  /\ [][(pc = "menu" /\ pc' = "menu" /\ tampered' = tampered /\ cur'.op = "list")
          => /\ conn' = conn
             /\ disk' = disk
             /\ SomeCorrupt(conn) =>
                  cur'.outcome = "DecryptError" /\ cur'.res = << >>
             /\ ~SomeCorrupt(conn) =>
                  cur'.outcome = "ok" /\ Len(cur'.res) = Cardinality(DOMAIN conn)]_vars
  /\ [][(pc = "seed" /\ pc' # "killed" /\ SomeCorrupt(conn))
          => /\ pc' = "terminated"
             /\ cur'.res = << >>
             /\ conn' = conn
             /\ disk' = disk]_vars
  /\ [][(pc = "join" /\ pc' = "join") => (conn' = conn /\ disk' = disk)]_vars
  /\ [](\A t \in DemoThreads :
          /\ tpc[t] = "failed" => tres[t] = << >>
          /\ (pc = "join" /\ tpc[t] \in {"lock", "print", "done"})
               => ~SomeCorrupt(conn))

\* a listing failed on a corrupt row that is not the first of the table
C10_Witness ==
  /\ tampered
  /\ pc = "menu"
  /\ cur.op = "list"
  /\ cur.outcome = "DecryptError"
  /\ cur.res = << >>
  /\ Cardinality(DOMAIN conn) >= 2
  /\ Dec(fernet, conn[1].grade_enc) # DecodeError

\* C11: across process starts on one key path, a key is written only by a
\* start that finds no key file and is never overwritten afterwards, every
\* start with a key file loads the key it holds, and every row committed by an
\* earlier session decrypts, in every later session, to the grade written.
C11_KeyGeneratedOnce ==
  /\ [][keyFile # NoKey => keyFile' = keyFile]_vars
  /\ [][keyFile' # keyFile => (pc \in Stopped /\ pc' = "seed")]_vars
  /\ []((pc \notin Stopped /\ keyFile # NoKey /\ cryptoOk) => fernet = keyFile)
  /\ [](pc = "seed" =>
         \A id \in DOMAIN disk :
           Dec(fernet, disk[id].grade_enc) = writtenDisk[id])

\* C12: in the concurrent read demo at most one thread is inside the printing
\* section, which it enters and leaves with PRINT_LOCK; the lines of one
\* listing (header, separator, one per record) form one contiguous block of
\* the console output, and a thread that has finished printed its whole
\* listing.
C12_ListingsDoNotInterleave ==
  /\ Cardinality({t \in DemoThreads : tpc[t] = "print"}) <= 1
  /\ \A t \in DemoThreads : tpc[t] = "print" <=> lock = t
  /\ \A k \in 2..Len(console) : \A j \in 1..(k - 1) :
       console[j] = console[k] => console[k - 1] = console[k]
  /\ \A t \in DemoThreads :
       /\ Printed(t) <= Lines(tres[t])
       /\ tpc[t] = "done" => Printed(t) = Lines(tres[t])
       /\ tpc[t] \notin {"print", "done"} => Printed(t) = 0

\* both threads have printed a full listing, the second thread first
C12_Witness ==
  /\ pc = "join"
  /\ \A t \in DemoThreads : tpc[t] = "done" /\ Printed(t) = 2 + MaxId
  /\ console[1] = 2
  /\ console[Len(console)] = 1

\* C13: no call the shell makes into the store ends with an uncaught
\* exception: the startup list and seed never end the process, and the list
\* call of a demo thread never ends its thread.
C13_ShellCatchesEveryError ==
  /\ pc # "terminated"
  /\ \A t \in DemoThreads : tpc[t] # "failed"

\* C14: whenever a row is stored while the process runs with the base64
\* fallback, the start of that process has reported the degraded mode.
C14_DegradedModeFlagged ==
  (pc \notin Stopped /\ fernet = NoKey /\ conn # EmptyTable)
    => "degraded mode" \in StartupNotices(cryptoOk)

\* C15: PRINT_LOCK is held only by a thread inside the with block of
\* print_students and is free once that thread has left it, by its end or by
\* an exception; concurrent_read_demo returns whether the threads' list or
\* print calls raise or not, so no thread stays blocked at the with statement.
C15_LockReleasedAndDemoReturns ==
  /\ [](lock # 0 => (lock \in DemoThreads /\ tpc[lock] = "print"))
  /\ [](pc # "join" => lock = 0)
  /\ (pc = "join") ~> (pc = "menu")

\* thread 1 raised in the middle of its listing and thread 2, which had to
\* wait for the lock, printed its whole listing afterwards
C15_Witness ==
  /\ pc = "join"
  /\ tpc[1] = "failed"
  /\ Printed(1) >= 1
  /\ tpc[2] = "done"
  /\ Printed(2) = 2 + MaxId
  /\ console[1] = 1
  /\ lock = 0

\* C16: the startup step adds the example record exactly when the store is
\* empty, and otherwise leaves every row of the store as it was; the example
\* record is added by no other step than the startup of a process on an empty
\* store, and a process passes its startup once.
C16_SeedOnlyOnEmpty ==
  /\ [][(pc = "seed" /\ pc' \notin {"seed", "killed"})
          => /\ conn = EmptyTable =>
                  /\ pc' = "commit"
                  /\ cur'.op = "seed" /\ cur'.outcome = "pending"
                  /\ DOMAIN conn' = {SeedStudent.id}
                  /\ conn'[SeedStudent.id].name = SeedStudent.name
                  /\ conn'[SeedStudent.id].age = SeedStudent.age
                  /\ Dec(fernet, conn'[SeedStudent.id].grade_enc)
                       = SeedStudent.grade
             /\ conn # EmptyTable =>
                  /\ pc' = "menu"
                  /\ cur'.outcome = "skipped"
                  /\ conn' = conn
                  /\ disk' = disk]_vars
  /\ [][(cur'.op = "seed" /\ cur'.outcome = "pending" /\ cur' # cur)
          => (pc = "seed" /\ conn = EmptyTable /\ disk = EmptyTable)]_vars
  /\ [][(pc' = "seed" /\ pc # "seed") => pc \in Stopped]_vars

\* a process started on a store that holds a row but none with the example
\* record's id, and its startup added nothing
C16_Witness ==
  /\ pc = "menu"
  /\ cur.op = "seed"
  /\ cur.outcome = "skipped"
  /\ conn # EmptyTable
  /\ SeedStudent.id \notin DOMAIN conn
  /\ conn = disk

====
